---- MODULE Spec2Model ----
(***************************************************************************)
(* Model of members/forms.py of the tutti membership administration:       *)
(* ProfileForm, try_ldap_bind, MyPasswordChangeForm, SubscribeForm and     *)
(* ProcessMembershipRequestForm.                                           *)
(*                                                                         *)
(* Execution is request scoped and single threaded: one form is built,     *)
(* validated (Form.full_clean: per-field cleaning, whole-form clean,       *)
(* model post-clean) and discarded before the next request starts.  The    *)
(* model runs one request at a time from the position "idle".              *)
(*                                                                         *)
(* Python values are tagged tuples of strings, so that True, "True",       *)
(* None and ["True"] are four different values.                            *)
(***************************************************************************)
EXTENDS Integers, Sequences, FiniteSets, TLC

VARIABLES
    pc,            \* position of the request in the code
    form,          \* class of the form being validated ("" when idle)
    fields,        \* self.fields: name -> [kind, required, choices, validators]
    data,          \* self.data: name -> list of submitted strings
    cleaned_data,  \* self.cleaned_data: name -> Python value (partial)
    errors,        \* self._errors: set of [field, code, message]
    outcome,       \* "none" | "valid" | "invalid" | "exception"
    exc,           \* uncaught exception leaving the request ("" if none)
    nullable,      \* model fields whose column allows blank/null
    user,          \* self.user of the password form: [username, password]
    directory,     \* LDAP server: bind identity -> password
    conn,          \* LDAP connection used by try_ldap_bind
    call,          \* activation of try_ldap_bind
    local_checks,  \* times the base class compared against the stored hash
    db             \* accounts: [usernames, person_ids]

vars == <<pc, form, fields, data, cleaned_data, errors, outcome, exc, nullable,
          user, directory, conn, call, local_checks, db>>

----------------------------------------------------------------------------
(* Bounds of the model *)

MaxUsers == 2
MaxPasswords == 2
MaxPersonIds == 2

Usernames == {"user" \o ToString(i) : i \in 1..MaxUsers}
Passwords == {"secret" \o ToString(i) : i \in 1..MaxPasswords}
PersonIds == {"pid" \o ToString(i) : i \in 1..MaxPersonIds}

----------------------------------------------------------------------------
(* Python values *)

None == <<"NoneType">>
PyStr(s) == <<"str", s>>
PyBool(b) == <<"bool", IF b THEN "True" ELSE "False">>
PyList(seq) == <<"list">> \o seq
PyDate(s) == <<"date", s>>
True == PyBool(TRUE)
False == PyBool(FALSE)

Range(seq) == {seq[i] : i \in 1..Len(seq)}

----------------------------------------------------------------------------
(* django.forms: fields, per-field cleaning, error bookkeeping *)

Field(kind, required, choices, validators) ==
    [kind |-> kind, required |-> required, choices |-> choices,
     validators |-> validators]

EmptyFields == [f \in {} |-> Field("char", FALSE, {}, {})]
EmptyData == [f \in {} |-> <<>>]
EmptyCleaned == [f \in {} |-> None]

\* str.strip() on the submitted values used here: a value is either bare or
\* padded with one blank on each side.
Padded(s) == " " \o s \o " "
Strip(s) ==
    IF \E n \in Usernames \cup PersonIds : s = Padded(n)
    THEN CHOOSE n \in Usernames \cup PersonIds : s = Padded(n)
    ELSE IF s = " " THEN "" ELSE s

\* members.models.UsernameValidator: the username format check.
IllFormedUsername == "No Such Format!"
UsernameValidator(s) == s # IllFormedUsername

\* DateField with input_formats = ('%d-%m-%Y',)
DayMonthYear == "31-12-2000"
YearMonthDay == "2000-12-31"
MatchesInputFormat(s) == s = DayMonthYear

Instrument_objects == {"violin", "cello"}

Err(field, code, message) == [field |-> field, code |-> code, message |-> message]

Cleaned(value) == [ok |-> TRUE, value |-> value, code |-> "", message |-> ""]
Rejected(code, message) == [ok |-> FALSE, value |-> None, code |-> code, message |-> message]

RequiredMessage == "This field is required."
InvalidChoiceMessage == "Select a valid choice."
InvalidDateMessage == "Enter a valid date."
InvalidUsernameMessage == "Enter a valid username."

\* Widget.value_from_datadict: a single-valued widget reads the last value.
SingleValue(raw) == IF raw = <<>> THEN "" ELSE raw[Len(raw)]

\* Field.clean(value): to_python, validate (required), run_validators.
FieldClean(fld, raw) ==
    CASE fld.kind = "char" ->
            LET v == Strip(SingleValue(raw)) IN
            IF v = "" THEN
                IF fld.required THEN Rejected("required", RequiredMessage)
                ELSE Cleaned(PyStr(""))
            ELSE IF "UsernameValidator" \in fld.validators /\ ~UsernameValidator(v)
                 THEN Rejected("invalid", InvalidUsernameMessage)
                 ELSE Cleaned(PyStr(v))
      [] fld.kind = "password" ->
            \* CharField(strip=False)
            LET v == SingleValue(raw) IN
            IF v = "" THEN
                IF fld.required THEN Rejected("required", RequiredMessage)
                ELSE Cleaned(PyStr(""))
            ELSE Cleaned(PyStr(v))
      [] fld.kind = "choice" ->
            LET v == SingleValue(raw) IN
            IF v = "" THEN
                IF fld.required THEN Rejected("required", RequiredMessage)
                ELSE Cleaned(PyStr(""))
            ELSE IF v \notin fld.choices
                 THEN Rejected("invalid_choice", InvalidChoiceMessage)
                 ELSE Cleaned(PyStr(v))
      [] fld.kind = "date" ->
            LET v == Strip(SingleValue(raw)) IN
            IF v = "" THEN
                IF fld.required THEN Rejected("required", RequiredMessage)
                ELSE Cleaned(None)
            ELSE IF ~MatchesInputFormat(v)
                 THEN Rejected("invalid", InvalidDateMessage)
                 ELSE Cleaned(PyDate(v))
      [] fld.kind = "checkbox" ->
            \* BooleanField: an absent or "False" value is an unticked box
            LET ticked == raw # <<>> /\ SingleValue(raw) \notin {"False", "false", "0"} IN
            IF ~ticked /\ fld.required THEN Rejected("required", RequiredMessage)
            ELSE Cleaned(PyBool(ticked))
      [] fld.kind \in {"multichoice", "modelmultichoice"} ->
            IF raw = <<>> THEN
                IF fld.required THEN Rejected("required", RequiredMessage)
                ELSE Cleaned(PyList(<<>>))
            ELSE IF \E i \in 1..Len(raw) : raw[i] \notin fld.choices
                 THEN Rejected("invalid_choice", InvalidChoiceMessage)
                 ELSE Cleaned(PyList(raw))

\* BaseForm.add_error: record the error and drop the field's cleaned value.
DropKey(cd, name) == [k \in DOMAIN cd \ {name} |-> cd[k]]
PutKey(cd, name, value) ==
    [k \in DOMAIN cd \cup {name} |-> IF k = name THEN value ELSE cd[k]]

\* BaseForm._clean_fields for a form without clean_<name> methods.
CleanedFields(flds, d) ==
    LET ok == {f \in DOMAIN flds : FieldClean(flds[f], d[f]).ok}
    IN [f \in ok |-> FieldClean(flds[f], d[f]).value]

FieldErrors(flds, d) ==
    {Err(f, FieldClean(flds[f], d[f]).code, FieldClean(flds[f], d[f]).message) :
        f \in {g \in DOMAIN flds : ~FieldClean(flds[g], d[g]).ok}}

Idle ==
    /\ pc = "idle"
    /\ form = ""

Reset ==
    /\ pc' = "idle"
    /\ form' = ""
    /\ fields' = EmptyFields
    /\ data' = EmptyData
    /\ cleaned_data' = EmptyCleaned
    /\ errors' = {}
    /\ outcome' = "none"
    /\ exc' = ""
    /\ nullable' = {}
    /\ user' = [username |-> "", password |-> ""]
    /\ directory' = [dn \in {} |-> ""]
    /\ conn' = [obtained |-> FALSE, user |-> "", password |-> "",
                binds |-> 0, unbinds |-> 0, bound |-> FALSE]
    /\ call' = [active |-> FALSE, caller |-> "", user |-> "", password |-> "",
                bind |-> "", pending |-> "", result |-> "", returned |-> FALSE]
    /\ local_checks' = 0
    /\ db' = [usernames |-> {}, person_ids |-> {}]


\* Form.is_valid(): the form is valid when no error was recorded.
Verdict(errs) == IF errs = {} THEN "valid" ELSE "invalid"

\* An exception that nothing catches leaves full_clean and ends the request.
Propagate(name) ==
    /\ pc' = "done"
    /\ outcome' = "exception"
    /\ exc' = name

----------------------------------------------------------------------------
(* ProfileForm *)

ProfileForm_Meta_fields ==
    <<"email", "phone_number", "street", "postal_code", "city", "country",
      "preferred_language">>

\* Variant: the loop that forces the fields required misses the last one.
ProfileForm_required_Six ==
    <<"email", "phone_number", "street", "postal_code", "city", "country">>

ProfileForm_required ==
    <<"email", "phone_number", "street", "postal_code", "city", "country",
      "preferred_language">>

\* ModelForm metaclass: one form field per Meta.fields entry, required unless
\* the model field allows blank.
FieldsForModel(names, blank) ==
    [f \in Range(names) |-> Field("char", f \notin blank, {}, {})]

SetRequired(flds, names) ==
    [f \in DOMAIN flds |->
        IF f \in Range(names) THEN [flds[f] EXCEPT !.required = TRUE] ELSE flds[f]]

\* A request binds submitted data to a ProfileForm for some person record.
StartProfile ==
    /\ Idle
    /\ \E blank \in SUBSET Range(ProfileForm_Meta_fields),
          missing \in {{}} \cup {{f} : f \in Range(ProfileForm_Meta_fields)} :
          /\ nullable' = blank
          /\ data' = [f \in Range(ProfileForm_Meta_fields) |->
                        IF f \in missing THEN <<>> ELSE <<"value">>]
    /\ form' = "ProfileForm"
    /\ pc' = "ProfileForm.__init__"
    /\ UNCHANGED <<fields, cleaned_data, errors, outcome, exc, user, directory,
                   conn, call, local_checks, db>>

ProfileForm__init__ ==
    /\ pc = "ProfileForm.__init__"
    /\ fields' = SetRequired(FieldsForModel(ProfileForm_Meta_fields, nullable),
                             ProfileForm_required)
    /\ pc' = "_clean_fields"
    /\ UNCHANGED <<form, data, cleaned_data, errors, outcome, exc, nullable, user,
                   directory, conn, call, local_checks, db>>

----------------------------------------------------------------------------
(* BaseForm.full_clean for the two model forms *)

ModelForms == {"ProfileForm", "SubscribeForm"}

CleanFields ==
    /\ pc = "_clean_fields"
    /\ form \in ModelForms
    /\ cleaned_data' = CleanedFields(fields, data)
    /\ errors' = FieldErrors(fields, data)
    /\ pc' = "_clean_form"
    /\ UNCHANGED <<form, fields, data, outcome, exc, nullable, user, directory,
                   conn, call, local_checks, db>>

\* ProfileForm inherits ModelForm.clean, which returns cleaned_data as it is.
ProfileForm_clean ==
    /\ pc = "_clean_form"
    /\ form = "ProfileForm"
    /\ pc' = "_post_clean"
    /\ UNCHANGED <<form, fields, data, cleaned_data, errors, outcome, exc, nullable,
                   user, directory, conn, call, local_checks, db>>

ModelErrorMessage == "The model instance did not validate."

\* BaseModelForm._post_clean: the instance is built and validated by the model,
\* which may report errors of its own; then is_valid() reads the verdict.
PostClean ==
    /\ pc = "_post_clean"
    /\ form \in ModelForms
    /\ \E modelError \in BOOLEAN :
          errors' = IF modelError
                    THEN errors \cup {Err("__all__", "model", ModelErrorMessage)}
                    ELSE errors
    /\ outcome' = Verdict(errors')
    /\ pc' = "done"
    /\ UNCHANGED <<form, fields, data, cleaned_data, exc, nullable, user, directory,
                   conn, call, local_checks, db>>

\* The view reads the result and the form is discarded.
Finish ==
    /\ pc = "done"
    /\ Reset

----------------------------------------------------------------------------
(* try_ldap_bind *)

LdapDn(username) == "uid=" \o username \o ",ou=people,dc=esmgquadrivium,dc=nl"

Directories == [{LdapDn(u) : u \in Usernames} -> Passwords]

\* Identities a caller may try: the known people and one the server lacks.
BindIdentities == {LdapDn(u) : u \in Usernames} \cup {"cn=nobody"}

\* A caller other than the password form calls try_ldap_bind(user, password).
StartLdapBind ==
    /\ Idle
    /\ \E dir \in Directories, u \in BindIdentities, p \in Passwords :
          /\ directory' = dir
          /\ call' = [call EXCEPT !.active = TRUE, !.caller = "direct",
                                  !.user = u, !.password = p]
    /\ form' = "try_ldap_bind"
    /\ pc' = "try_ldap_bind:29"
    /\ UNCHANGED <<fields, data, cleaned_data, errors, outcome, exc, nullable, user,
                   conn, local_checks, db>>

\* conn = get_connection(); conn.user = user; conn.password = password
\* get_connection may itself fail, before the try block is entered.
LdapGetConnection ==
    /\ pc = "try_ldap_bind:29"
    /\ \E obtained \in BOOLEAN :
          IF obtained
          THEN /\ conn' = [conn EXCEPT !.obtained = TRUE, !.user = call.user,
                                       !.password = call.password]
               /\ pc' = "try_ldap_bind:33"
               /\ UNCHANGED <<outcome, exc, call>>
          ELSE /\ Propagate("LDAPException")
               /\ call' = [call EXCEPT !.active = FALSE]
               /\ UNCHANGED conn
    /\ UNCHANGED <<form, fields, data, cleaned_data, errors, nullable, user,
                   directory, local_checks, db>>

\* What the server answers to the credentials on the connection.
CredentialsAccepted(c, dir) ==
    /\ c.user \in DOMAIN dir
    /\ dir[c.user] = c.password

\* Variant: the handler catches every directory error, not only the
\* invalid-credentials one.
LdapBind_CatchAll ==
    /\ pc = "try_ldap_bind:33"
    /\ \E fault \in BOOLEAN :
          LET result == IF fault THEN "other_error"
                        ELSE IF CredentialsAccepted(conn, directory) THEN "success"
                        ELSE "invalid_credentials"
          IN /\ call' = [call EXCEPT !.bind = result,
                            !.pending = IF result = "success" THEN "fall_through" ELSE ""]
             /\ conn' = [conn EXCEPT !.binds = @ + 1, !.bound = (result = "success")]
             /\ pc' = IF result = "success"
                      THEN "try_ldap_bind:37" ELSE "try_ldap_bind:34"
    /\ UNCHANGED <<form, fields, data, cleaned_data, errors, outcome, exc, nullable,
                   user, directory, local_checks, db>>

\* conn.bind(): succeeds, raises LDAPInvalidCredentialsResult, or raises
\* some other directory error (server unreachable, protocol fault, ...).
LdapBind ==
    /\ pc = "try_ldap_bind:33"
    /\ \E fault \in BOOLEAN :
          LET result == IF fault THEN "other_error"
                        ELSE IF CredentialsAccepted(conn, directory) THEN "success"
                        ELSE "invalid_credentials"
          IN /\ call' = [call EXCEPT !.bind = result,
                            !.pending = CASE result = "success" -> "fall_through"
                                          [] result = "other_error" -> "raise"
                                          [] OTHER -> ""]
             /\ conn' = [conn EXCEPT !.binds = @ + 1, !.bound = (result = "success")]
             /\ pc' = IF result = "invalid_credentials"
                      THEN "try_ldap_bind:34" ELSE "try_ldap_bind:37"
    /\ UNCHANGED <<form, fields, data, cleaned_data, errors, outcome, exc, nullable,
                   user, directory, local_checks, db>>

\* except LDAPInvalidCredentialsResult: return False  (the finally runs first)
LdapExceptInvalidCredentials ==
    /\ pc = "try_ldap_bind:34"
    /\ call' = [call EXCEPT !.pending = "return_False"]
    /\ pc' = "try_ldap_bind:37"
    /\ UNCHANGED <<form, fields, data, cleaned_data, errors, outcome, exc, nullable,
                   user, directory, conn, local_checks, db>>

\* Where control goes when try_ldap_bind returns a value.
ReturnSite == IF call.caller = "clean_old_password" THEN "clean_old_password:50" ELSE "done"

\* Variant: unbind written after the try statement instead of in a finally
\* clause, so that only the normal path reaches it.
LdapFinallyUnbind_NoFinally ==
    /\ pc = "try_ldap_bind:37"
    /\ conn' = IF call.pending = "fall_through"
               THEN [conn EXCEPT !.unbinds = @ + 1, !.bound = FALSE]
               ELSE conn
    /\ CASE call.pending = "fall_through" ->
               /\ pc' = "try_ldap_bind:38"
               /\ UNCHANGED <<call, outcome, exc>>
         [] call.pending = "return_False" ->
               /\ call' = [call EXCEPT !.result = "False", !.returned = TRUE,
                                       !.active = FALSE]
               /\ pc' = ReturnSite
               /\ UNCHANGED <<outcome, exc>>
         [] call.pending = "raise" ->
               /\ call' = [call EXCEPT !.active = FALSE]
               /\ Propagate("LDAPException")
    /\ UNCHANGED <<form, fields, data, cleaned_data, errors, nullable, user,
                   directory, local_checks, db>>

\* finally: conn.unbind(); then the pending return or exception takes effect.
LdapFinallyUnbind ==
    /\ pc = "try_ldap_bind:37"
    /\ conn' = [conn EXCEPT !.unbinds = @ + 1, !.bound = FALSE]
    /\ CASE call.pending = "fall_through" ->
               /\ pc' = "try_ldap_bind:38"
               /\ UNCHANGED <<call, outcome, exc>>
         [] call.pending = "return_False" ->
               /\ call' = [call EXCEPT !.result = "False", !.returned = TRUE,
                                       !.active = FALSE]
               /\ pc' = ReturnSite
               /\ UNCHANGED <<outcome, exc>>
         [] call.pending = "raise" ->
               /\ call' = [call EXCEPT !.active = FALSE]
               /\ Propagate("LDAPException")
    /\ UNCHANGED <<form, fields, data, cleaned_data, errors, nullable, user,
                   directory, local_checks, db>>

\* return True
LdapReturnTrue ==
    /\ pc = "try_ldap_bind:38"
    /\ call' = [call EXCEPT !.result = "True", !.returned = TRUE, !.active = FALSE]
    /\ pc' = ReturnSite
    /\ UNCHANGED <<form, fields, data, cleaned_data, errors, outcome, exc, nullable,
                   user, directory, conn, local_checks, db>>


----------------------------------------------------------------------------
(* MyPasswordChangeForm *)

Sentinel == "invalid"

\* django.contrib.auth.hashers: a stored hash is the algorithm tag and the
\* digest of the raw password; check_password re-hashes and compares.
make_password(raw) == "pbkdf2_sha256$" \o raw
check_password(raw, encoded) == encoded = make_password(raw)

\* What User.password can hold: the sentinel, a near miss of it, or a hash.
StoredPasswords == {Sentinel, "Invalid"} \cup {make_password(p) : p \in Passwords}

PasswordIncorrect ==
    Err("old_password", "password_incorrect",
        "Your old password was entered incorrectly. Please enter it again.")

\* A logged-in user submits the password change form.
StartPasswordChange ==
    /\ Idle
    /\ \E u \in Usernames, stored \in StoredPasswords, dir \in Directories,
          old \in {<<>>} \cup {<<p>> : p \in Passwords} :
          /\ user' = [username |-> u, password |-> stored]
          /\ directory' = dir
          /\ data' = [f \in {"old_password"} |-> old]
    /\ fields' = [f \in {"old_password"} |-> Field("password", TRUE, {}, {})]
    /\ form' = "MyPasswordChangeForm"
    /\ pc' = "old_password.clean"
    /\ UNCHANGED <<cleaned_data, errors, outcome, exc, nullable, conn, call,
                   local_checks, db>>

\* BaseForm._clean_fields: the field's own clean runs before clean_old_password,
\* which is skipped when the field itself is rejected.
OldPasswordFieldClean ==
    /\ pc = "old_password.clean"
    /\ LET r == FieldClean(fields["old_password"], data["old_password"]) IN
          IF r.ok
          THEN /\ cleaned_data' = PutKey(cleaned_data, "old_password", r.value)
               /\ pc' = "clean_old_password:46"
               /\ UNCHANGED errors
          ELSE /\ errors' = errors \cup {Err("old_password", r.code, r.message)}
               /\ pc' = "new_password.clean"
               /\ UNCHANGED cleaned_data
    /\ UNCHANGED <<form, fields, data, outcome, exc, nullable, user, directory, conn,
                   call, local_checks, db>>

\* Variant: the sentinel is compared without regard to case.
MyPasswordChangeForm_clean_old_password_AnyCase ==
    /\ pc = "clean_old_password:46"
    /\ IF user.password \in {Sentinel, "Invalid"}
       THEN /\ call' = [call EXCEPT !.active = TRUE,
                            !.caller = "clean_old_password",
                            !.user = LdapDn(user.username),
                            !.password = cleaned_data["old_password"][2]]
            /\ pc' = "try_ldap_bind:29"
       ELSE /\ pc' = "PasswordChangeForm.clean_old_password"
            /\ UNCHANGED call
    /\ UNCHANGED <<form, fields, data, cleaned_data, errors, outcome, exc, nullable,
                   user, directory, conn, local_checks, db>>

\* clean_old_password up to the call of try_ldap_bind or of the base class.
MyPasswordChangeForm_clean_old_password ==
    /\ pc = "clean_old_password:46"
    /\ IF user.password = Sentinel
       THEN /\ call' = [call EXCEPT !.active = TRUE,
                            !.caller = "clean_old_password",
                            !.user = LdapDn(user.username),
                            !.password = cleaned_data["old_password"][2]]
            /\ pc' = "try_ldap_bind:29"
       ELSE /\ pc' = "PasswordChangeForm.clean_old_password"
            /\ UNCHANGED call
    /\ UNCHANGED <<form, fields, data, cleaned_data, errors, outcome, exc, nullable,
                   user, directory, conn, local_checks, db>>

\* Variant: the test of try_ldap_bind's result lost its "not".
MyPasswordChangeForm_after_bind_Inverted ==
    /\ pc = "clean_old_password:50"
    /\ IF call.result = "True"
       THEN /\ errors' = errors \cup {PasswordIncorrect}
            /\ cleaned_data' = DropKey(cleaned_data, "old_password")
       ELSE /\ cleaned_data' = PutKey(cleaned_data, "old_password",
                                      cleaned_data["old_password"])
            /\ UNCHANGED errors
    /\ pc' = "new_password.clean"
    /\ UNCHANGED <<form, fields, data, outcome, exc, nullable, user, directory, conn,
                   call, local_checks, db>>

\* clean_old_password after try_ldap_bind returned: raise the validation error
\* (which _clean_fields records, dropping the value) or return old_password.
MyPasswordChangeForm_after_bind ==
    /\ pc = "clean_old_password:50"
    /\ IF call.result # "True"
       THEN /\ errors' = errors \cup {PasswordIncorrect}
            /\ cleaned_data' = DropKey(cleaned_data, "old_password")
       ELSE /\ cleaned_data' = PutKey(cleaned_data, "old_password",
                                      cleaned_data["old_password"])
            /\ UNCHANGED errors
    /\ pc' = "new_password.clean"
    /\ UNCHANGED <<form, fields, data, outcome, exc, nullable, user, directory, conn,
                   call, local_checks, db>>

\* PasswordChangeForm.clean_old_password: user.check_password(old_password).
PasswordChangeForm_clean_old_password ==
    /\ pc = "PasswordChangeForm.clean_old_password"
    /\ local_checks' = local_checks + 1
    /\ IF check_password(cleaned_data["old_password"][2], user.password)
       THEN UNCHANGED <<errors, cleaned_data>>
       ELSE /\ errors' = errors \cup {PasswordIncorrect}
            /\ cleaned_data' = DropKey(cleaned_data, "old_password")
    /\ pc' = "new_password.clean"
    /\ UNCHANGED <<form, fields, data, outcome, exc, nullable, user, directory, conn,
                   call, db>>

\* The new-password fields are validated by the base class; they may be
\* rejected on their own account.
NewPasswordFieldsClean ==
    /\ pc = "new_password.clean"
    /\ \E mismatch \in BOOLEAN :
          errors' = IF mismatch
                    THEN errors \cup {Err("new_password2", "password_mismatch",
                                          "The two password fields did not match.")}
                    ELSE errors
    /\ outcome' = Verdict(errors')
    /\ pc' = "done"
    /\ UNCHANGED <<form, fields, data, cleaned_data, exc, nullable, user, directory,
                   conn, call, local_checks, db>>

----------------------------------------------------------------------------
(* SubscribeForm *)

SubscribeForm_Meta_fields ==
    <<"first_name", "last_name", "initials", "email", "phone_number", "street",
      "postal_code", "city", "country", "gender", "date_of_birth",
      "preferred_language", "field_of_study", "is_student", "iban",
      "tue_card_number", "remarks", "sub_association", "instruments",
      "photo_video_consent_external_group", "photo_video_consent_external",
      "photo_video_consent_internal", "ensure_subscribe", "add_to_chats">>

SubscribeForm_Meta_required ==
    <<"first_name", "last_name", "initials", "email", "phone_number", "street",
      "postal_code", "city", "country", "gender", "date_of_birth",
      "preferred_language", "is_student", "instruments",
      "photo_video_consent_external_group", "photo_video_consent_external",
      "photo_video_consent_internal", "ensure_subscribe", "add_to_chats">>

SubscribeForm_Meta_boolean_choices ==
    <<"photo_video_consent_external_group", "photo_video_consent_external",
      "photo_video_consent_internal", "is_student">>

MustTick == {"add_to_chats", "ensure_subscribe"}

\* Variant: the must-tick checkbox groups also offer a "False" option.
SubscribeDeclaredField_WithNo(f) ==
    CASE f \in {"preferred_language", "gender"} -> Field("char", TRUE, {}, {})
      [] f \in MustTick -> Field("multichoice", TRUE, {"True", "False"}, {})

\* Fields declared on the class body; the others come from the model.
SubscribeDeclaredField(f) ==
    CASE f \in {"preferred_language", "gender"} -> Field("char", TRUE, {}, {})
      [] f \in MustTick -> Field("multichoice", TRUE, {"True"}, {})

SubscribeModelField(f, blank) ==
    CASE f = "date_of_birth" -> Field("date", f \notin blank, {}, {})
      [] f = "instruments" ->
            Field("modelmultichoice", f \notin blank, Instrument_objects, {})
      [] f \in Range(SubscribeForm_Meta_boolean_choices) ->
            \* a model BooleanField gives a checkbox that is never required
            Field("checkbox", FALSE, {}, {})
      [] OTHER -> Field("char", f \notin blank, {}, {})

SubscribeDeclared == {"preferred_language", "gender"} \cup MustTick

\* Declared fields belong to the form whether or not Meta.fields lists them.
SubscribeBaseFields(blank) ==
    [f \in Range(SubscribeForm_Meta_fields) \cup SubscribeDeclared |->
        IF f \in SubscribeDeclared THEN SubscribeDeclaredField(f)
        ELSE SubscribeModelField(f, blank)]

\* populate_boolean_fields: each boolean choice becomes a Yes/No ChoiceField.
populate_boolean_fields(flds) ==
    [f \in DOMAIN flds |->
        IF f \in Range(SubscribeForm_Meta_boolean_choices)
        THEN Field("choice", TRUE, {"Yes", "No"}, {})
        ELSE flds[f]]

\* Submitted values per field.
BooleanAnswers == {<<>>, <<"Yes">>, <<"No">>, <<"Maybe">>}
TickAnswers == {<<>>, <<"True">>, <<"False">>}
FilledIn(f) ==
    CASE f = "date_of_birth" -> <<DayMonthYear>>
      [] f = "instruments" -> <<"violin">>
      [] OTHER -> <<"value">>

PlainFields ==
    Range(SubscribeForm_Meta_fields)
        \ (Range(SubscribeForm_Meta_boolean_choices) \cup MustTick)

\* The ways one plain field can deviate from a filled-in form: a field of
\* each sort left empty, or the date of birth written year first.
DeviatingFields ==
    {"first_name", "gender", "remarks", "date_of_birth", "instruments"}
Deviations ==
    {<<"", <<>>>>} \cup {<<f, <<>>>> : f \in DeviatingFields}
        \cup {<<"date_of_birth", <<YearMonthDay>>>>}

SubscribeData(answers, ticks, dev) ==
    [f \in Range(SubscribeForm_Meta_fields) |->
        IF f \in Range(SubscribeForm_Meta_boolean_choices) THEN answers[f]
        ELSE IF f \in MustTick THEN ticks[f]
        ELSE IF f = dev[1] THEN dev[2]
        ELSE FilledIn(f)]

\* A visitor submits the subscription form.
StartSubscribe ==
    /\ Idle
    /\ \E answers \in [Range(SubscribeForm_Meta_boolean_choices) -> BooleanAnswers],
          ticks \in [MustTick -> TickAnswers],
          dev \in Deviations,
          blank \in {{}, PlainFields} :
          /\ data' = SubscribeData(answers, ticks, dev)
          /\ nullable' = blank
    /\ form' = "SubscribeForm"
    /\ pc' = "SubscribeForm.__init__"
    /\ UNCHANGED <<fields, cleaned_data, errors, outcome, exc, user, directory, conn,
                   call, local_checks, db>>

SubscribeForm__init__ ==
    /\ pc = "SubscribeForm.__init__"
    /\ fields' = SetRequired(populate_boolean_fields(SubscribeBaseFields(nullable)),
                             SubscribeForm_Meta_required)
    /\ pc' = "_clean_fields"
    /\ UNCHANGED <<form, data, cleaned_data, errors, outcome, exc, nullable, user,
                   directory, conn, call, local_checks, db>>

\* Variant: the validated value is cast by truthiness, bool(value).
IsYes_Truthy(v) == v # PyStr("")

\* cleaned_data[field] == 'Yes'
IsYes(v) == v = PyStr("Yes")

\* The loop of SubscribeForm.clean over the first n boolean choices:
\* cleaned_data[field] = cleaned_data[field] == 'Yes', KeyError on a missing key.
RECURSIVE CastBooleans(_, _)
CastBooleans(cd, n) ==
    IF n = 0 THEN [raised |-> FALSE, cd |-> cd]
    ELSE LET before == CastBooleans(cd, n - 1)
             f == SubscribeForm_Meta_boolean_choices[n]
         IN IF before.raised THEN before
            ELSE IF f \notin DOMAIN before.cd
                 THEN [raised |-> TRUE, cd |-> before.cd]
                 ELSE [raised |-> FALSE,
                       cd |-> PutKey(before.cd, f, PyBool(IsYes(before.cd[f])))]

SubscribeForm_clean ==
    /\ pc = "_clean_form"
    /\ form = "SubscribeForm"
    /\ LET r == CastBooleans(cleaned_data, Len(SubscribeForm_Meta_boolean_choices)) IN
          /\ cleaned_data' = r.cd
          /\ IF r.raised
             THEN Propagate("KeyError")
             ELSE /\ pc' = "_post_clean"
                  /\ UNCHANGED <<outcome, exc>>
    /\ UNCHANGED <<form, fields, data, errors, nullable, user, directory, conn, call,
                   local_checks, db>>

----------------------------------------------------------------------------
(* ProcessMembershipRequestForm *)

UsernameTaken ==
    "A user with this username already exists. Please provide an unused username."
PersonIdTaken == "A person with this person ID already exists."

Returned(value) == [raised |-> FALSE, value |-> value, message |-> ""]
Raised(message) == [raised |-> TRUE, value |-> None, message |-> message]

\* Variant: the existence query is forgotten.
clean_username_NoCheck(cd, database) == Returned(None)

\* def clean_username(self): raises if the username exists; no return statement.
clean_username(cd, database) ==
    IF cd["username"][2] \in database.usernames
    THEN Raised(UsernameTaken)
    ELSE Returned(None)

\* Person.validate_person_id_unique: raises a validation error when a person
\* with this person_id exists.
validate_person_id_unique(person_id, database) == person_id \notin database.person_ids

\* def clean_person_id(self): calls the model's check; no return statement.
clean_person_id(cd, database) ==
    IF ~validate_person_id_unique(cd["person_id"][2], database)
    THEN Raised(PersonIdTaken)
    ELSE Returned(None)

ProcessFields ==
    [f \in {"username", "person_id", "instruments"} |->
        CASE f = "username" -> Field("char", TRUE, {}, {"UsernameValidator"})
          [] f = "person_id" -> Field("char", TRUE, {}, {})
          [] f = "instruments" ->
                Field("modelmultichoice", FALSE, Instrument_objects, {})]

UsernameInputs ==
    {<<>>, <<IllFormedUsername>>} \cup {<<u>> : u \in Usernames}
        \cup {<<Padded(u)>> : u \in Usernames}
PersonIdInputs ==
    {<<>>} \cup {<<p>> : p \in PersonIds} \cup {<<Padded(p)>> : p \in PersonIds}
InstrumentInputs == {<<>>, <<"violin">>, <<"violin", "cello">>, <<"tuba">>}

\* An administrator submits the form that turns a request into an account.
StartProcess ==
    /\ Idle
    /\ \E u \in UsernameInputs, p \in PersonIdInputs, i \in InstrumentInputs,
          taken \in SUBSET Usernames, used \in SUBSET PersonIds :
          /\ data' = [f \in DOMAIN ProcessFields |->
                        CASE f = "username" -> u
                          [] f = "person_id" -> p
                          [] f = "instruments" -> i]
          /\ db' = [usernames |-> taken, person_ids |-> used]
    /\ fields' = ProcessFields
    /\ form' = "ProcessMembershipRequestForm"
    /\ pc' = "username.clean"
    /\ UNCHANGED <<cleaned_data, errors, outcome, exc, nullable, user, directory,
                   conn, call, local_checks>>

\* cleaned_data once Field.clean has accepted the field, as clean_<name> sees it.
WithFieldValue(name) ==
    PutKey(cleaned_data, name, FieldClean(fields[name], data[name]).value)

\* BaseForm._clean_fields for one field: Field.clean, then clean_<name> if the
\* form has one (hooked is its result), whose return value replaces the
\* cleaned value.
CleanOneField(name, hasHook, hooked, next) ==
    /\ LET r == FieldClean(fields[name], data[name]) IN
          IF ~r.ok
          THEN /\ errors' = errors \cup {Err(name, r.code, r.message)}
               /\ cleaned_data' = DropKey(cleaned_data, name)
          ELSE IF ~hasHook
               THEN /\ cleaned_data' = WithFieldValue(name)
                    /\ UNCHANGED errors
               ELSE IF hooked.raised
                    THEN /\ errors' = errors \cup {Err(name, "", hooked.message)}
                         /\ cleaned_data' = DropKey(WithFieldValue(name), name)
                    ELSE /\ cleaned_data' = PutKey(WithFieldValue(name), name, hooked.value)
                         /\ UNCHANGED errors
    /\ pc' = next
    /\ UNCHANGED <<form, fields, data, outcome, exc, nullable, user, directory, conn,
                   call, local_checks, db>>

ProcessCleanUsername ==
    /\ pc = "username.clean"
    /\ CleanOneField("username", TRUE,
                     clean_username(WithFieldValue("username"), db),
                     "person_id.clean")

ProcessCleanPersonId ==
    /\ pc = "person_id.clean"
    /\ CleanOneField("person_id", TRUE,
                     clean_person_id(WithFieldValue("person_id"), db),
                     "instruments.clean")

\* instruments has no clean_instruments method.
ProcessCleanInstruments ==
    /\ pc = "instruments.clean"
    /\ CleanOneField("instruments", FALSE, Returned(None), "Form.clean")

\* Form.clean is not overridden; is_valid() then reads the verdict.
ProcessCleanForm ==
    /\ pc = "Form.clean"
    /\ outcome' = Verdict(errors)
    /\ pc' = "done"
    /\ UNCHANGED <<form, fields, data, cleaned_data, errors, exc, nullable, user,
                   directory, conn, call, local_checks, db>>

----------------------------------------------------------------------------
(* Specification *)

Init ==
    /\ pc = "idle"
    /\ form = ""
    /\ fields = EmptyFields
    /\ data = EmptyData
    /\ cleaned_data = EmptyCleaned
    /\ errors = {}
    /\ outcome = "none"
    /\ exc = ""
    /\ nullable = {}
    /\ user = [username |-> "", password |-> ""]
    /\ directory = [dn \in {} |-> ""]
    /\ conn = [obtained |-> FALSE, user |-> "", password |-> "",
               binds |-> 0, unbinds |-> 0, bound |-> FALSE]
    /\ call = [active |-> FALSE, caller |-> "", user |-> "", password |-> "",
               bind |-> "", pending |-> "", result |-> "", returned |-> FALSE]
    /\ local_checks = 0
    /\ db = [usernames |-> {}, person_ids |-> {}]

Next ==
    \/ StartProfile
    \/ ProfileForm__init__
    \/ CleanFields
    \/ ProfileForm_clean
    \/ PostClean
    \/ StartLdapBind
    \/ LdapGetConnection
    \/ LdapBind
    \/ LdapExceptInvalidCredentials
    \/ LdapFinallyUnbind
    \/ LdapReturnTrue
    \/ StartPasswordChange
    \/ OldPasswordFieldClean
    \/ MyPasswordChangeForm_clean_old_password
    \/ MyPasswordChangeForm_after_bind
    \/ PasswordChangeForm_clean_old_password
    \/ NewPasswordFieldsClean
    \/ StartSubscribe
    \/ SubscribeForm__init__
    \/ SubscribeForm_clean
    \/ StartProcess
    \/ ProcessCleanUsername
    \/ ProcessCleanPersonId
    \/ ProcessCleanInstruments
    \/ ProcessCleanForm
    \/ Finish

Spec == Init /\ [][Next]_vars

----------------------------------------------------------------------------
(* Properties *)

HasError(f, code) == \E e \in errors : e.field = f /\ e.code = code
HasMessage(f, message) == \E e \in errors : e.field = f /\ e.message = message
Accepted(f) == f \in DOMAIN cleaned_data
BindOutcomes == {"success", "invalid_credentials", "other_error"}

\* try_ldap_bind has given control back (by return or by exception) after
\* having obtained its connection.
BackAtCaller == conn.obtained /\ ~call.active

\* C1: in every call of try_ldap_bind that obtained its connection, unbind is
\* performed exactly once and before control is back at the caller, on each
\* of the three outcomes of bind; until the finally clause it has not run.
C1_UnbindExactlyOnce ==
    conn.obtained =>
        /\ conn.unbinds <= 1
        /\ conn.binds <= 1
        /\ BackAtCaller => conn.unbinds = 1 /\ call.bind \in BindOutcomes
        /\ pc \in {"try_ldap_bind:33", "try_ldap_bind:34", "try_ldap_bind:37"}
              => conn.unbinds = 0

\* C1 witness: bind raised an error other than invalid credentials, the error
\* left the function, and the connection was unbound once on the way.
C1_Witness ==
    /\ BackAtCaller
    /\ call.bind = "other_error"
    /\ exc = "LDAPException"
    /\ conn.unbinds = 1

\* C2: try_ldap_bind returns True exactly when bind completed, False exactly
\* when bind raised invalid credentials, and on any other error of bind it
\* returns nothing: the error leaves the function and ends the request.
C2_ReturnValue ==
    BackAtCaller =>
        /\ call.bind = "success" <=> (call.returned /\ call.result = "True")
        /\ call.bind = "invalid_credentials" <=> (call.returned /\ call.result = "False")
        /\ call.bind = "other_error" <=>
              (~call.returned /\ call.result = "" /\ outcome = "exception"
                  /\ exc = "LDAPException")

\* C2 witness: the password form's bind met a directory fault, which reached
\* the caller of the form as an exception.
C2_Witness ==
    /\ BackAtCaller
    /\ call.caller = "clean_old_password"
    /\ call.bind = "other_error"
    /\ outcome = "exception"
    /\ ~call.returned

SubmittedOldPassword == SingleValue(data["old_password"])
OldPasswordDecided ==
    /\ form = "MyPasswordChangeForm"
    /\ pc \in {"new_password.clean", "done"}
    /\ data["old_password"] # <<>>
    /\ outcome # "exception"

\* C3: for an account whose stored password is the sentinel, clean_old_password
\* binds as uid={username},ou=people,dc=esmgquadrivium,dc=nl with the
\* submitted password; it accepts the password, unchanged, exactly when the bind
\* succeeds, records code password_incorrect when the bind is refused, and never
\* runs the base class's comparison with the stored hash.
C3_SentinelUsesLdap ==
    (form = "MyPasswordChangeForm" /\ user.password = "invalid") =>
        /\ local_checks = 0
        /\ conn.obtained =>
              /\ conn.user = "uid=" \o user.username \o ",ou=people,dc=esmgquadrivium,dc=nl"
              /\ conn.password = SubmittedOldPassword
        /\ OldPasswordDecided =>
              /\ call.returned
              /\ Accepted("old_password") <=> call.bind = "success"
              /\ call.bind = "success" =>
                    /\ cleaned_data["old_password"] = PyStr(SubmittedOldPassword)
                    /\ ~\E e \in errors : e.field = "old_password"
              /\ call.bind = "invalid_credentials" =>
                    HasError("old_password", "password_incorrect")

\* C3 witness: a sentinel account whose directory password was submitted; the
\* bind succeeded and the form validated although no local hash matches.
C3_Witness ==
    /\ form = "MyPasswordChangeForm"
    /\ user.password = "invalid"
    /\ pc = "done"
    /\ call.bind = "success"
    /\ outcome = "valid"
    /\ ~check_password(SubmittedOldPassword, user.password)

\* C4: for an account whose stored password is not the sentinel, validating the
\* old password never asks for an LDAP connection and never binds; the password
\* is accepted exactly when the base class's comparison with the stored hash
\* succeeds, which is made once.
C4_NormalAccountStaysLocal ==
    (form = "MyPasswordChangeForm" /\ user.password # "invalid") =>
        /\ ~conn.obtained
        /\ conn.binds = 0
        /\ call.caller = ""
        /\ pc \notin {"try_ldap_bind:29", "try_ldap_bind:33", "clean_old_password:50"}
        /\ OldPasswordDecided =>
              /\ local_checks = 1
              /\ Accepted("old_password")
                    <=> user.password = "pbkdf2_sha256$" \o SubmittedOldPassword
              /\ ~Accepted("old_password")
                    => HasError("old_password", "password_incorrect")

\* C4 witness: an account whose stored password differs from the sentinel only
\* in case was checked locally, once, and refused.
C4_Witness ==
    /\ form = "MyPasswordChangeForm"
    /\ user.password = "Invalid"
    /\ pc = "done"
    /\ local_checks = 1
    /\ outcome = "invalid"

BooleanChoices == Range(SubscribeForm_Meta_boolean_choices)
SubscribeDone == form = "SubscribeForm" /\ pc = "done"

\* C5: SubscribeForm rejects a submission (the form ends invalid with a
\* reported error, not with an uncaught exception) whenever one of the four
\* boolean choices is left unanswered.
C5_UnansweredIsRejected ==
    (SubscribeDone /\ \E f \in BooleanChoices : data[f] = <<>>) =>
        /\ outcome = "invalid"
        /\ errors # {}
        /\ exc = ""

\* C6: whenever SubscribeForm validation succeeds, each boolean choice's cleaned
\* value is True if "Yes" was submitted and False if "No" was, never a string;
\* the strings are still there after per-field validation and are rewritten by
\* the time the whole-form clean has completed.
C6_BooleansNormalised ==
    form = "SubscribeForm" =>
        \A f \in BooleanChoices :
            /\ (pc = "_clean_form" /\ Accepted(f)) =>
                  cleaned_data[f] \in {PyStr("Yes"), PyStr("No")}
            /\ (pc = "_post_clean" \/ outcome = "valid") =>
                  /\ Accepted(f)
                  /\ data[f] \in {<<"Yes">>, <<"No">>}
                  /\ data[f] = <<"Yes">> => cleaned_data[f] = <<"bool", "True">>
                  /\ data[f] = <<"No">> => cleaned_data[f] = <<"bool", "False">>

\* C6 witness: a valid subscription that answered both Yes and No.
C6_Witness ==
    /\ SubscribeDone
    /\ outcome = "valid"
    /\ data["is_student"] = <<"No">>
    /\ data["photo_video_consent_internal"] = <<"Yes">>

ProcessDone == form = "ProcessMembershipRequestForm" /\ pc = "done"
SubmittedUsername == Strip(SingleValue(data["username"]))
SubmittedPersonId == Strip(SingleValue(data["person_id"]))

C7_Rejections ==
    /\ SubmittedUsername \in db.usernames =>
          /\ outcome = "invalid"
          /\ HasMessage("username", UsernameTaken)
          /\ ~HasMessage("person_id", UsernameTaken)
    /\ SubmittedPersonId \in db.person_ids =>
          /\ outcome = "invalid"
          /\ \E e \in errors : e.field = "person_id" /\ e.message # UsernameTaken
          /\ \A e \in errors : e.field = "username" =>
                e.message \in {UsernameTaken, RequiredMessage, InvalidUsernameMessage}

\* C7 as stated: a taken username and a taken person_id are each rejected with
\* their own error on their own field, and every submission with an unused
\* username, an unused person_id and no instrument is accepted.
C7_AsStated ==
    ProcessDone =>
        /\ C7_Rejections
        /\ (/\ SubmittedUsername \notin db.usernames
            /\ SubmittedPersonId \notin db.person_ids
            /\ data["instruments"] = <<>>) => outcome = "valid"

\* C7 amended: a taken username and a taken person_id are each rejected with
\* their own error on their own field; a submission whose username is present,
\* well formed and unused, whose person_id is present and unused, and whose
\* instrument selection is empty is accepted.
C7_UniquenessChecks ==
    ProcessDone =>
        /\ C7_Rejections
        /\ (/\ SubmittedUsername # ""
            /\ SubmittedUsername # "No Such Format!"
            /\ SubmittedUsername \notin db.usernames
            /\ SubmittedPersonId # ""
            /\ SubmittedPersonId \notin db.person_ids
            /\ data["instruments"] = <<>>) => outcome = "valid"

\* C7 witness: an unused username and person_id with no instrument selected
\* were accepted while other accounts exist.
C7_Witness ==
    /\ ProcessDone
    /\ data["instruments"] = <<>>
    /\ db.usernames # {}
    /\ db.person_ids # {}
    /\ outcome = "valid"

AnsweredAll == \A f \in BooleanChoices : data[f] \in {<<"Yes">>, <<"No">>}

\* C8: a SubscribeForm submission in which add_to_chats or ensure_subscribe is
\* not ticked never validates; when every other field is validly filled in it
\* ends invalid with an error on the unticked field.
C8_MustTick ==
    SubscribeDone =>
        \A f \in MustTick :
            data[f] # <<"True">> =>
                /\ outcome # "valid"
                /\ AnsweredAll => (outcome = "invalid" /\ \E e \in errors : e.field = f)

\* C8 witness: everything filled in and ensure_subscribe ticked, add_to_chats
\* left unticked: the form is invalid.
C8_Witness ==
    /\ SubscribeDone
    /\ AnsweredAll
    /\ data["add_to_chats"] = <<>>
    /\ data["ensure_subscribe"] = <<"True">>
    /\ \A f \in PlainFields : data[f] # <<>>
    /\ outcome = "invalid"

ProfileFieldNames ==
    {"email", "phone_number", "street", "postal_code", "city", "country",
     "preferred_language"}

\* C9: once ProfileForm is built, the fields forced required are exactly the
\* fields it exposes, the seven listed ones; a submission missing any of them
\* ends invalid with a required error on that field, whatever the person
\* record allows.
C9_ProfileAllRequired ==
    (form = "ProfileForm" /\ pc # "ProfileForm.__init__") =>
        /\ DOMAIN fields = ProfileFieldNames
        /\ {f \in DOMAIN fields : fields[f].required} = DOMAIN fields
        /\ pc = "done" =>
              \A f \in ProfileFieldNames :
                  data[f] = <<>> => (outcome = "invalid" /\ HasError(f, "required"))

\* C9 witness: the person record allows an empty preferred_language, the
\* submission leaves it out, and the form is invalid.
C9_Witness ==
    /\ form = "ProfileForm"
    /\ pc = "done"
    /\ "preferred_language" \in nullable
    /\ data["preferred_language"] = <<>>
    /\ outcome = "invalid"

\* C10: whenever ProcessMembershipRequestForm validation succeeds, the cleaned
\* values read back for username and person_id equal the submitted values.
C10_CleanedEqualsSubmitted ==
    (ProcessDone /\ outcome = "valid") =>
        /\ Accepted("username")
        /\ cleaned_data["username"] = PyStr(SingleValue(data["username"]))
        /\ Accepted("person_id")
        /\ cleaned_data["person_id"] = PyStr(SingleValue(data["person_id"]))

====
